---- MODULE Spec2Model ----
(***************************************************************************)
(* The request pipeline of the Premiumize API client.                      *)
(*                                                                         *)
(* The repository holds four revisions of PremiumizeClient.request:        *)
(*   "part_002"  src/unnamed/part_002:76-136  (credential guard, logging)  *)
(*   "index"     src/src/index.ts:40-95       (logging, no guard)          *)
(*   "errorsA"   src/src/errors.ts:104-150    (ApiRequestError)            *)
(*   "errorsB"   src/src/errors.ts:380-415    (always POST, plain Error)   *)
(* A client is one of the four; its calls run concurrently, each one       *)
(* suspended only while the transport (axios) is in flight.                *)
(*                                                                         *)
(* Two more variables record what happened outside the pipeline: the call   *)
(* that constructed the client with its console output, and one            *)
(* application of obfuscateString.                                          *)
(*                                                                         *)
(* JavaScript values are pairs <<type, token>>, strings that are built     *)
(* from templates are sequences of their parts, and a response body is     *)
(* null, the empty string, or an object (a function from keys to values).  *)
(***************************************************************************)
EXTENDS Integers, Sequences, FiniteSets, TLC

VARIABLES variant, client, inflight, last, construction, redaction

vars == <<variant, client, inflight, last, construction, redaction>>

(* ---------------------------------------------------------------------- *)
(* Bounds                                                                  *)
(* ---------------------------------------------------------------------- *)

\* number of calls that may overlap on one client
MaxInFlight == 2

Slots == 1..MaxInFlight

\* longest string handed to obfuscateString on its own
MaxLen == 5

\* number of clients a caller constructs from one config object
MaxClients == 2

Variants == {"part_002", "index", "errorsA", "errorsB"}

(* ---------------------------------------------------------------------- *)
(* JavaScript values                                                       *)
(* ---------------------------------------------------------------------- *)

Num(t) == <<"num", t>>
Str(t) == <<"str", t>>
Obj(t) == <<"obj", t>>
Undefined == <<"undefined", "">>

\* strings that Number() converts to a number; every other string gives NaN
NumericTokens == {"123", "12345"}

NullBody == [tag |-> "null"]
EmptyBody == [tag |-> "empty"]
ObjectBody(f) == [tag |-> "object", fields |-> f]

IsObject(b) == b.tag = "object"
HasKey(b, k) == IsObject(b) /\ k \in DOMAIN b.fields
\* b[k] of JavaScript: undefined when the key is missing
Get(b, k) == IF HasKey(b, k) THEN b.fields[k] ELSE Undefined

\* JavaScript truthiness of a response body and of a value
TruthyBody(b) == b.tag = "object"
Truthy(v) == ~(v = Undefined \/ v = Str(""))

(* ---------------------------------------------------------------------- *)
(* Response bodies the service can send                                    *)
(* ---------------------------------------------------------------------- *)

ErrBodyMsg == ObjectBody([status |-> Str("error"), message |-> Str("Invalid API key")])
ErrBodyNoMsg == ObjectBody([status |-> Str("error")])
ErrBodyEmptyMsg == ObjectBody([status |-> Str("error"), message |-> Str("")])
\* an error body that also carries every field of a success body
ErrBodyFull ==
  ObjectBody([status |-> Str("error"), message |-> Str("Quota exceeded"),
              customer_id |-> Str("123"), premium_until |-> Num("1640995200"),
              limit_used |-> Num("100"), limit_total |-> Num("1000"),
              space_used |-> Num("500"), space_total |-> Num("1000"),
              id |-> Str("new-folder-id")])
\* src/unnamed/part_001:9-14
AccountBodyExact ==
  ObjectBody([customer_id |-> Num("12345"), premium_until |-> Num("1640995200"),
              limit_used |-> Num("0.5"), space_used |-> Num("1073741824")])
\* src/src/index.test.ts:31-39
AccountBodyOld ==
  ObjectBody([status |-> Str("success"), customer_id |-> Str("123"),
              premium_until |-> Num("1640995200"),
              limit_used |-> Num("100"), limit_total |-> Num("1000"),
              space_used |-> Num("500"), space_total |-> Num("1000")])
\* src/src/index.test.ts:59-63
AccountBodyMissing ==
  ObjectBody([status |-> Str("success"), customer_id |-> Str("123")])
\* src/unnamed/part_001:43-45
FolderBody == ObjectBody([id |-> Str("new-folder-id")])
FolderBodyOld ==
  ObjectBody([status |-> Str("success"), data |-> Obj("id"), extra |-> Str("x")])

ErrorBodies == {ErrBodyMsg, ErrBodyNoMsg, ErrBodyEmptyMsg, ErrBodyFull}

Bodies ==
  {NullBody, EmptyBody, AccountBodyExact, AccountBodyOld, AccountBodyMissing,
   FolderBody, FolderBodyOld} \cup ErrorBodies

(* ---------------------------------------------------------------------- *)
(* Schema validators (zod)                                                 *)
(* ---------------------------------------------------------------------- *)

\* a schema is the sequence of its fields: key, field type, optional or not
Field(k, t, o) == [key |-> k, type |-> t, optional |-> o]

\* src/src/types.ts:280-285
AccountInfoResponse ==
  << Field("customer_id", "coerce.number", FALSE),
     Field("premium_until", "coerce.number", FALSE),
     Field("limit_used", "coerce.number", FALSE),
     Field("space_used", "coerce.number", FALSE) >>

\* src/unnamed/part_000:12-19
AccountInfoSchema ==
  << Field("customer_id", "string", FALSE),
     Field("premium_until", "number", FALSE),
     Field("limit_used", "number", FALSE),
     Field("limit_total", "number", FALSE),
     Field("space_used", "number", FALSE),
     Field("space_total", "number", FALSE) >>

\* src/src/types.ts:111-113
CreateFolderResponse == << Field("id", "string", FALSE) >>

\* src/unnamed/part_000:185-196
CreateFolderResponseSchema ==
  << Field("status", "enum", FALSE),
     Field("message", "string", TRUE),
     Field("data", "object", TRUE) >>

NoSchema == << >>

SchemaOf(name) ==
  CASE name = "AccountInfoResponse" -> AccountInfoResponse
    [] name = "AccountInfoSchema" -> AccountInfoSchema
    [] name = "CreateFolderResponse" -> CreateFolderResponse
    [] name = "CreateFolderResponseSchema" -> CreateFolderResponseSchema
    [] OTHER -> NoSchema

\* does value v pass a field of type t
FieldOk(t, v) ==
  CASE t = "coerce.number" ->
         v[1] = "num" \/ (v[1] = "str" /\ v[2] \in NumericTokens)
    [] t = "number" -> v[1] = "num"
    [] t = "string" -> v[1] = "str"
    [] t = "enum" -> v \in {Str("success"), Str("error")}
    [] t = "object" -> v[1] = "obj"
    [] OTHER -> FALSE

\* the value a field of type t gives back for an accepted v
FieldOut(t, v) == IF t = "coerce.number" THEN Num(v[2]) ELSE v

\* a field of the schema that the body fails
FieldFails(f, b) ==
  IF HasKey(b, f.key) THEN ~FieldOk(f.type, b.fields[f.key])
  ELSE ~f.optional

\* the zod issues of body b, in schema order: path and code of each
RECURSIVE Issues(_, _)
Issues(schema, b) ==
  IF schema = << >> THEN << >>
  ELSE (IF FieldFails(Head(schema), b)
        THEN << Head(schema).key, "invalid_type" >> ELSE << >>)
       \o Issues(Tail(schema), b)

\* the keys of the schema, unknown keys being stripped from the output
SchemaKeys(schema) == {schema[i].key : i \in 1..Len(schema)}
TypeOfKey(schema, k) ==
  (CHOOSE i \in 1..Len(schema) : schema[i].key = k)

\* the output of a successful parse: known keys only, each coerced
Normalized(schema, b) ==
  ObjectBody([k \in SchemaKeys(schema) \cap DOMAIN b.fields |->
                FieldOut(schema[TypeOfKey(schema, k)].type, b.fields[k])])

\* schema.safeParse(body)
safeParse(schema, b) ==
  IF ~IsObject(b)
  THEN [success |-> FALSE, data |-> NullBody,
        issues |-> << "", "invalid_type" >>]
  ELSE IF Issues(schema, b) # << >>
  THEN [success |-> FALSE, data |-> NullBody, issues |-> Issues(schema, b)]
  ELSE [success |-> TRUE, data |-> Normalized(schema, b), issues |-> << >>]

(* ---------------------------------------------------------------------- *)
(* Credentials and redaction                                               *)
(* ---------------------------------------------------------------------- *)

Keys == {"", "abc", "secret01"}

\* the characters of a credential
Chars(k) ==
  CASE k = "abc" -> << "a", "b", "c" >>
    [] k = "secret01" -> << "s", "e", "c", "r", "e", "t", "0", "1" >>
    [] OTHER -> << >>

\* s.slice(-n): the last n characters, the whole string when n is 0
SliceFromEnd(s, n) ==
  IF n = 0 THEN s ELSE SubSeq(s, Len(s) - n + 1, Len(s))

\* obfuscateString(s, percentToHide), percentToHide = num/den
obfuscateString(s, num, den) ==
  LET hideLength == (Len(s) * num) \div den
  IN SubSeq(s, 1, hideLength) \o << ".", ".", "." >> \o SliceFromEnd(s, hideLength)

\* the default percentToHide of each revision of util.ts: 0.5, then 0.25
DefaultHideDen(v) == IF v = "part_002" THEN 4 ELSE 2

(* ---------------------------------------------------------------------- *)
(* Construction                                                            *)
(* ---------------------------------------------------------------------- *)

DefaultBaseUrl == "https://www.premiumize.me/api"

\* an optional boolean of the caller's config, unset or set
Flags == {"undefined", "true", "false"}
\* the baseUrl of the caller: no such key, the key with value undefined, or
\* a URL of the caller's own
BaseUrls == {"absent", "undefined", "https://custom.api.com"}

\* a config object of the caller
Config(k, u, vl, ob) ==
  [apiKey |-> k, baseUrl |-> u, verboseLogging |-> vl,
   obfuscateApiKeysInLogs |-> ob]

\* the config objects a caller passes to the constructor: the flags a
\* revision reads with a long credential, a short and an empty credential,
\* and every base URL
CallerConfigs(v) ==
  {Config("secret01", u, "undefined", "undefined") : u \in BaseUrls}
    \cup {Config("", "absent", "undefined", "undefined")}
    \cup (CASE v = "part_002" ->
                {Config("secret01", "absent", "undefined", ob) : ob \in Flags}
                  \cup {Config("secret01", "absent", "true", ob) :
                          ob \in {"undefined", "false"}}
                  \cup {Config("abc", "absent", "true", "undefined")}
            [] v = "index" ->
                {Config(k, "absent", vl, "undefined") :
                   k \in Keys, vl \in {"undefined", "true"}}
            [] OTHER ->
                {Config(k, "absent", "undefined", "undefined") : k \in Keys})

\* PremiumizeClient.create: the config object it hands to the constructor.
\* The newest revision spreads the options over a default base URL; the
\* older ones pass { apiKey, baseUrl } with baseUrl possibly undefined.
create(v, config) ==
  IF v = "part_002"
  THEN [config EXCEPT !.baseUrl = IF config.baseUrl = "absent"
                                  THEN DefaultBaseUrl ELSE config.baseUrl]
  ELSE [apiKey |-> config.apiKey,
        baseUrl |-> IF config.baseUrl = "absent"
                    THEN "undefined" ELSE config.baseUrl,
        verboseLogging |-> "undefined",
        obfuscateApiKeysInLogs |-> "undefined"]

\* how a caller obtains a client; the oldest revision has no factory
Hows(v) == IF v = "errorsB" THEN {"new"} ELSE {"new", "create"}

\* the arguments create accepts: options in the newest revision, a base URL
\* only in the older ones
CreateConfigs(v) ==
  {Config("secret01", u, "undefined", "undefined") : u \in BaseUrls}
    \cup (IF v = "part_002"
          THEN {Config("secret01", "absent", "undefined", "false")} ELSE {})

\* the construction of the client: the config as the caller first passed it,
\* the console output of the constructor, the caller's config object as the
\* constructor left it, and how many clients were built from that object
Construction(h, config, out, after, n) ==
  [how |-> h, config |-> config, console |-> out, cfg |-> after, clients |-> n]

\* new PremiumizeClient(config); the three older revisions share one body.
\* { baseUrl: default, ...config } keeps the default only when config has no
\* baseUrl key; baseURL is the base URL of the axios instance.
PremiumizeClient(v, config) ==
  IF v = "part_002"
  THEN [apiKey |-> config.apiKey,
        config |-> [apiKey |-> "",
                    baseUrl |-> IF config.baseUrl = "absent"
                                THEN DefaultBaseUrl ELSE config.baseUrl,
                    verboseLogging |-> config.verboseLogging,
                    obfuscateApiKeysInLogs |-> config.obfuscateApiKeysInLogs],
        baseURL |-> IF config.baseUrl = "absent"
                    THEN DefaultBaseUrl ELSE config.baseUrl,
        verboseLogging |-> (config.verboseLogging = "true"),
        obfuscateApiKeysInLogs |-> (config.obfuscateApiKeysInLogs # "false")]
  ELSE [apiKey |-> "",
        config |-> [apiKey |-> config.apiKey,
                    baseUrl |-> IF config.baseUrl = "absent"
                                THEN DefaultBaseUrl ELSE config.baseUrl,
                    verboseLogging |-> config.verboseLogging,
                    obfuscateApiKeysInLogs |-> config.obfuscateApiKeysInLogs],
        baseURL |-> IF config.baseUrl = "absent"
                    THEN DefaultBaseUrl ELSE config.baseUrl,
        verboseLogging |-> FALSE,
        obfuscateApiKeysInLogs |-> TRUE]

\* what the constructor writes to the console
VerboseInfo == [level |-> "info", text |-> "Verbose logging enabled"]
RedactionWarning ==
  [level |-> "warn",
   text |-> "Not obfuscating API key in logs, be careful doing this in production."]

ConsoleAtConstruction_unlessTrue(v, config) ==
  IF config.obfuscateApiKeysInLogs # "true" THEN << RedactionWarning >> ELSE << >>

ConsoleAtConstruction(v, config) ==
  IF v = "part_002"
  THEN (IF config.verboseLogging = "true" THEN << VerboseInfo >> ELSE << >>)
       \o (IF config.obfuscateApiKeysInLogs = "false"
           THEN << RedactionWarning >> ELSE << >>)
  ELSE << >>

\* the caller's config object after new PremiumizeClient(config): the newest
\* revision assigns config.apiKey = ""
CfgAfter(v, config) ==
  IF v = "part_002" THEN [config EXCEPT !.apiKey = ""] ELSE config

\* the credential the pipeline reads: this.apiKey, or this.config.apiKey
HeldKey(v, c) == IF v = "part_002" THEN c.apiKey ELSE c.config.apiKey

\* get apiKeyObfuscated()
apiKeyObfuscated(c) ==
  IF c.obfuscateApiKeysInLogs
  THEN obfuscateString(Chars(c.apiKey), 1, DefaultHideDen("part_002"))
  ELSE Chars(c.apiKey)

\* verboseLog(...args): the lines that reach the console
verboseLog(c, line) ==
  IF c.config.verboseLogging = "true" THEN << line >> ELSE << >>

LogLine(l, m, e, cred) ==
  [line |-> l, method |-> m, endpoint |-> e, credential |-> cred]

(* ---------------------------------------------------------------------- *)
(* Errors                                                                  *)
(* ---------------------------------------------------------------------- *)

NoRaw == [k |-> "none"]
RawBody(b) == [k |-> "body", body |-> b]
RawValidation(iss, b) == [k |-> "validation", issues |-> iss, data |-> b]
RawError(e) == [k |-> "error", error |-> e]

\* error.config of an AxiosError: the query parameters and the body of the
\* request that failed; other errors have none
RequestConfig(p, d) == [params |-> p, data |-> d]
NoConfig == RequestConfig(<< >>, << >>)

Thrown(n, msg, r, ax) ==
  [name |-> n, message |-> msg, raw |-> r, isAxiosError |-> ax,
   config |-> NoConfig]

\* new Error(message), and the TypeError of a property read on undefined/null
Error(msg) == Thrown("Error", msg, NoRaw, FALSE)
TypeError(msg) == Thrown("TypeError", msg, NoRaw, FALSE)
\* new PremiumizeError(message, raw)
PremiumizeError(msg, r) == Thrown("PremiumizeError", msg, r, FALSE)
\* new ApiRequestError(message, original); isAxiosError = !!original.isAxiosError
ApiRequestError(msg, original) ==
  Thrown("ApiRequestError", msg, RawError(original), original.isAxiosError)

\* axios.isAxiosError(error)
isAxiosError(e) == e.isAxiosError

NoError == Thrown("none", << >>, NoRaw, FALSE)

(* ---------------------------------------------------------------------- *)
(* Operation surface: the RequestArguments each method hands to request    *)
(* ---------------------------------------------------------------------- *)

RequestArguments(o, e, p, s, m) ==
  [op |-> o, endpoint |-> e, params |-> p, schema |-> s, method |-> m]

\* optional fields a caller may leave unset
ParentIds == {Undefined, Str("parent-123")}

\* accountInfo()
accountInfo ==
  RequestArguments("accountInfo", "/account/info", << >>,
                   "AccountInfoResponse", "undefined")

\* createFolder(opts)
createFolder(parent_id) ==
  RequestArguments("createFolder", "/folder/create",
                   << << "name", Str("New Folder") >>,
                      << "parent_id", parent_id >> >>,
                   "CreateFolderResponse", "post")

\* getAccountInfo() of the two older revisions
getAccountInfo ==
  RequestArguments("getAccountInfo", "account/info", << >>,
                   "AccountInfoSchema", "get")

\* createFolder(name, parentId?) of the two older revisions
createFolderOld(parentId) ==
  RequestArguments("createFolder", "folder/create",
                   << << "name", Str("New Folder") >> >>
                     \o (IF Truthy(parentId)
                         THEN << << "parent_id", parentId >> >> ELSE << >>),
                   "CreateFolderResponseSchema", "post")

\* getUploadInfo(folderId?): the one operation without a validator
getUploadInfo(folderId) ==
  RequestArguments("getUploadInfo", "folder/uploadinfo",
                   IF Truthy(folderId) THEN << << "id", folderId >> >> ELSE << >>,
                   "none", "get")

Operations(v) ==
  CASE v \in {"part_002", "index"} ->
         {accountInfo} \cup {createFolder(p) : p \in ParentIds}
    [] v = "errorsA" ->
         {getAccountInfo} \cup {createFolderOld(p) : p \in ParentIds}
           \cup {getUploadInfo(p) : p \in ParentIds}
    [] OTHER ->
         {getAccountInfo} \cup {createFolderOld(p) : p \in ParentIds}

NoOpts == RequestArguments("none", "", << >>, "none", "undefined")

(* ---------------------------------------------------------------------- *)
(* Transport (axios)                                                       *)
(* ---------------------------------------------------------------------- *)

\* { apikey: key, ...params }
MergeParams_paramsOnly(key, params) == params

MergeParams(key, params) ==
  LET IsKey(p) == p[1] = "apikey"
      NotKey(p) == p[1] # "apikey"
      over == SelectSeq(params, IsKey)
  IN << << "apikey", IF over = << >> THEN Str(key) ELSE over[Len(over)][2] >> >>
       \o SelectSeq(params, NotKey)

\* one call of this.client.get / this.client.post
Dispatch(f, u, d, b, p) ==
  [fn |-> f, url |-> u, data |-> d, body |-> b, params |-> p]

NoDispatch == Dispatch("none", "", "none", << >>, << >>)

\* what the transport hands back: a response, or a fault it rejects with
\* response.request: absent, a request object without a path, or a request
\* with its path; the two oldest revisions never read it
Metas(v) ==
  IF v \in {"part_002", "index"} THEN {"absent", "nopath", "path"} ELSE {"absent"}
HttpStatuses == {200, 400}
\* the bodies that come with a status outside 2xx
HttpErrorBodies == {NullBody, ErrBodyMsg, ErrBodyFull}
\* the bodies tried with a response whose request metadata has no path
PathlessBodies == {NullBody, AccountBodyExact, FolderBody, ErrBodyFull}

Reply(k, st, d, rq, f) ==
  [kind |-> k, status |-> st, data |-> d, request |-> rq, fault |-> f]

NoReply == Reply("none", 0, NullBody, "absent", NoError)

RawResponse(st, d) == [k |-> "response", status |-> st, data |-> d]

\* axios settles a response by its status: 2xx resolves, anything else
\* rejects with an AxiosError that carries the response
AxiosReply(st, d, rq) ==
  IF st \div 100 = 2
  THEN Reply("response", st, d, rq, NoError)
  ELSE Reply("fault", st, d, "absent",
             Thrown("AxiosError",
                    << "Request failed with status code ", ToString(st) >>,
                    RawResponse(st, d), TRUE))

\* the reply to dispatch d: an AxiosError carries the config of its request
OfRequest(reply, d) ==
  IF reply.kind = "fault" /\ reply.fault.isAxiosError
  THEN [reply EXCEPT !.fault.config = RequestConfig(d.params, d.body)]
  ELSE reply

\* faults with no response: an AxiosError, and an error axios does not own
NetworkFaults ==
  { Thrown("AxiosError", << "Network Error" >>, NoRaw, TRUE),
    Thrown("AxiosError", << "timeout of 10000ms exceeded" >>, NoRaw, TRUE),
    Thrown("Error", << "Network Error" >>, NoRaw, FALSE) }

(* ---------------------------------------------------------------------- *)
(* request: the steps of the try block after the transport resolved        *)
(* ---------------------------------------------------------------------- *)

\* how a run of the try block ends: a returned value or a thrown error, and
\* whether the error-body test and the validator were reached on the way
Step(t, val, e, d, sp, l) ==
  [threw |-> t, value |-> val, error |-> e,
   detected |-> d, validated |-> sp, log |-> l]

Returns(val, sp, l) == Step(FALSE, val, NoError, TRUE, sp, l)
Throws(e, d, sp, l) == Step(TRUE, NullBody, e, d, sp, l)

\* response.data.message || "API request failed"
ApiErrorMessage(data) ==
  IF Truthy(Get(data, "message"))
  THEN << Get(data, "message")[2] >> ELSE << "API request failed" >>

HasErrorStatus_anyStatus(data) == TruthyBody(data) /\ HasKey(data, "status")

\* the error-body test; the oldest revision reads data.status unguarded
HasErrorStatus(data) == TruthyBody(data) /\ Get(data, "status") = Str("error")

\* the error thrown for an error body
ApiError(v, data) ==
  IF v = "errorsB"
  THEN Error(ApiErrorMessage(data))
  ELSE PremiumizeError(ApiErrorMessage(data), RawBody(data))

ValidationMessage(issues) == << "API response validation failed: " >> \o issues

\* the error thrown for a body the validator rejects
ValidationFailure(v, issues, data) ==
  IF v = "errorsA"
  THEN PremiumizeError(ValidationMessage(issues), RawValidation(issues, data))
  ELSE Error(ValidationMessage(issues))

Validated_raw(parsed, data) == data

\* the value a call with a validator returns
Validated(parsed, data) == parsed.data

\* from the error-body test to the return
Inspect(v, opts, data, l) ==
  IF v = "errorsB" /\ data = NullBody
  THEN Throws(TypeError(<< "Cannot read properties of null (reading 'status')" >>),
              TRUE, FALSE, l)
  ELSE IF HasErrorStatus(data)
  THEN Throws(ApiError(v, data), TRUE, FALSE, l)
  ELSE IF opts.schema # "none"
  THEN LET parsed == safeParse(SchemaOf(opts.schema), data)
       IN IF ~parsed.success
          THEN Throws(ValidationFailure(v, parsed.issues, data), TRUE, TRUE, l)
          ELSE Returns(Validated(parsed, data), TRUE, l)
  ELSE Returns(data, FALSE, l)

\* the diagnostic line after the response, then the rest of the try block
AfterResponse(v, c, opts, reply) ==
  CASE v = "part_002" ->
         IF reply.request # "path"
         THEN Throws(TypeError(<< "Cannot read properties of undefined (reading 'replace')" >>),
                     FALSE, FALSE, << >>)
         ELSE Inspect(v, opts, reply.data,
                      verboseLog(c, LogLine("req",
                                            IF opts.method = "post" THEN "POST" ELSE "GET",
                                            opts.endpoint, apiKeyObfuscated(c))))
    [] v = "index" ->
         Inspect(v, opts, reply.data,
                 verboseLog(c, IF reply.request = "path"
                               THEN LogLine("req",
                                            IF opts.method = "post" THEN "POST" ELSE "GET",
                                            opts.endpoint, Chars(c.config.apiKey))
                               ELSE IF reply.request = "nopath"
                               THEN LogLine("req",
                                            IF opts.method = "post" THEN "POST" ELSE "GET",
                                            "", << >>)
                               ELSE LogLine("req", "", "", << >>)))
    [] OTHER -> Inspect(v, opts, reply.data, << >>)

\* the catch block: an axios error is wrapped, anything else is rethrown
Catch_wrapsAll(v, e) ==
  CASE v \in {"part_002", "index"} ->
         PremiumizeError(<< "API request failed: " >> \o e.message, RawError(e))
    [] v = "errorsA" ->
         ApiRequestError(<< "API request failed: " >> \o e.message, e)
    [] OTHER -> Error(<< "API request failed: " >> \o e.message)

Catch(v, e) ==
  IF isAxiosError(e)
  THEN CASE v \in {"part_002", "index"} ->
              PremiumizeError(<< "API request failed: " >> \o e.message, RawError(e))
         [] v = "errorsA" ->
              ApiRequestError(<< "API request failed: " >> \o e.message, e)
         [] OTHER -> Error(<< "API request failed: " >> \o e.message)
  ELSE e

\* request, from the transport's reply to the settled promise
Resume_swallowsFault(v, c, opts, reply) ==
  IF reply.kind = "fault"
  THEN Returns(NullBody, FALSE, << >>)
  ELSE AfterResponse(v, c, opts, reply)

Resume(v, c, opts, reply) ==
  LET try == IF reply.kind = "fault"
             THEN Throws(reply.fault, FALSE, FALSE, << >>)
             ELSE AfterResponse(v, c, opts, reply)
  IN IF try.threw
     THEN [try EXCEPT !.error = Catch(v, try.error)]
     ELSE try

(* ---------------------------------------------------------------------- *)
(* request: the synchronous steps before the transport is awaited          *)
(* ---------------------------------------------------------------------- *)

\* the credential precondition of the newest revision
KeyMissing(v, c) == v = "part_002" /\ c.apiKey = ""

\* opts.method ?? "get"; the oldest revision always posts
MethodOf(v, opts) ==
  IF v = "errorsB" THEN "post"
  ELSE IF opts.method = "post" THEN "post" ELSE "get"

\* the diagnostic line before the call
BeforeCall(v, c, opts) ==
  CASE v = "part_002" ->
         verboseLog(c, LogLine("pre",
                               IF MethodOf(v, opts) = "post" THEN "POST" ELSE "GET",
                               opts.endpoint, apiKeyObfuscated(c)))
    [] v = "index" ->
         verboseLog(c, LogLine("pre", "", opts.endpoint,
                               obfuscateString(Chars(c.config.apiKey), 1,
                                               DefaultHideDen("index"))))
    [] OTHER -> << >>

\* the call of this.client.get / this.client.post / this.client[method]
Send(v, c, opts) ==
  LET merged == MergeParams(HeldKey(v, c), opts.params)
  IN CASE v = "errorsA" ->
            IF MethodOf(v, opts) = "post"
            THEN Dispatch("post", opts.endpoint, "object", merged, << >>)
            ELSE Dispatch("get", opts.endpoint, "none", << >>, merged)
       [] v = "errorsB" ->
            Dispatch("post", opts.endpoint, "null", << >>, merged)
       [] OTHER ->
            IF MethodOf(v, opts) = "post"
            THEN Dispatch("post", opts.endpoint, "null", << >>, merged)
            ELSE Dispatch("get", opts.endpoint, "none", << >>, merged)

(* ---------------------------------------------------------------------- *)
(* State                                                                   *)
(* ---------------------------------------------------------------------- *)

\* a call suspended at the await, with what it sent and logged so far
Call(p, o, d, l) == [pc |-> p, opts |-> o, dispatch |-> d, log |-> l]

Idle == Call("idle", NoOpts, NoDispatch, << >>)

\* the call that settled most recently: its inputs, the transport calls it
\* made, and how its promise settled
Settled(o, n, d, r, st, val, e, det, sp, l) ==
  [settled |-> TRUE, opts |-> o, transportCalls |-> n, dispatch |-> d,
   reply |-> r, state |-> st, value |-> val, error |-> e,
   detected |-> det, validated |-> sp, log |-> l]

NoneSettled ==
  [settled |-> FALSE, opts |-> NoOpts, transportCalls |-> 0,
   dispatch |-> NoDispatch, reply |-> NoReply, state |-> "none",
   value |-> NullBody, error |-> NoError,
   detected |-> FALSE, validated |-> FALSE, log |-> << >>]

\* the settled promise of a call that was resumed with reply r
Settle_retriesFault(v, c, call, r) ==
  LET s == Resume(v, c, call.opts, r)
  IN Settled(call.opts, IF r.kind = "fault" THEN 2 ELSE 1, call.dispatch, r,
             IF s.threw THEN "rejected" ELSE "resolved",
             s.value, s.error, s.detected, s.validated, call.log \o s.log)

Settle(v, c, call, r) ==
  LET s == Resume(v, c, call.opts, r)
  IN Settled(call.opts, 1, call.dispatch, r,
             IF s.threw THEN "rejected" ELSE "resolved",
             s.value, s.error, s.detected, s.validated, call.log \o s.log)

\* one application of obfuscateString
Redaction(p, s, num, den, out) ==
  [pc |-> p, s |-> s, num |-> num, den |-> den, out |-> out]

NoRedaction == Redaction("none", << >>, 0, 1, << >>)

Init ==
  /\ variant \in Variants
  /\ \E how \in Hows(variant) :
       \E config \in (IF how = "create" THEN CreateConfigs(variant)
                      ELSE CallerConfigs(variant)) :
         LET passed == IF how = "create" THEN create(variant, config) ELSE config
         IN /\ client = PremiumizeClient(variant, passed)
            /\ construction =
                 Construction(how, config, ConsoleAtConstruction(variant, passed),
                              IF how = "create" THEN config
                              ELSE CfgAfter(variant, config), 1)
  /\ redaction = NoRedaction
  /\ inflight = [i \in Slots |-> Idle]
  /\ last = NoneSettled

(* ---------------------------------------------------------------------- *)
(* Actions                                                                 *)
(* ---------------------------------------------------------------------- *)

\* a caller invokes an operation: request runs up to the await
Invoke_sharedOpts(i, opts) ==
  /\ ~last.settled
  /\ inflight[i].pc = "idle"
  /\ ~KeyMissing(variant, client)
  /\ inflight' = [j \in Slots |->
                    IF j = i
                    THEN Call("awaiting", opts, Send(variant, client, opts),
                              BeforeCall(variant, client, opts))
                    ELSE IF inflight[j].pc = "awaiting"
                    THEN [inflight[j] EXCEPT !.opts = opts]
                    ELSE inflight[j]]
  /\ UNCHANGED <<variant, client, last, construction, redaction>>

Invoke(i, opts) ==
  /\ ~last.settled
  /\ inflight[i].pc = "idle"
  /\ IF KeyMissing(variant, client)
     THEN /\ last' = Settled(opts, 0, NoDispatch, NoReply, "rejected", NullBody,
                             Error(<< "API key is required" >>),
                             FALSE, FALSE, << >>)
          /\ UNCHANGED inflight
     ELSE /\ inflight' = [inflight EXCEPT ![i] =
                            Call("awaiting", opts, Send(variant, client, opts),
                                 BeforeCall(variant, client, opts))]
          /\ UNCHANGED last
  /\ UNCHANGED <<variant, client, construction, redaction>>

\* the HTTP response of a call arrives: request runs to its end
Respond(i, st, body, rq) ==
  /\ ~last.settled
  /\ inflight[i].pc = "awaiting"
  /\ st \div 100 # 2 => (body \in HttpErrorBodies /\ rq = "absent")
  /\ (rq # "path" /\ "path" \in Metas(variant)) => body \in PathlessBodies
  /\ last' = Settle(variant, client, inflight[i],
                    OfRequest(AxiosReply(st, body, rq), inflight[i].dispatch))
  /\ inflight' = [inflight EXCEPT ![i] = Idle]
  /\ UNCHANGED <<variant, client, construction, redaction>>

\* the transport fails without a response
Fail(i, fault) ==
  /\ ~last.settled
  /\ inflight[i].pc = "awaiting"
  /\ last' = Settle(variant, client, inflight[i],
                    OfRequest(Reply("fault", 0, NullBody, "absent", fault),
                              inflight[i].dispatch))
  /\ inflight' = [inflight EXCEPT ![i] = Idle]
  /\ UNCHANGED <<variant, client, construction, redaction>>

\* the settled promise is handed to the caller's continuation, which runs
\* before any further event; the call's context is then unreachable
Deliver ==
  /\ last.settled
  /\ last' = NoneSettled
  /\ UNCHANGED <<variant, client, inflight, construction, redaction>>

\* the fields of the newest revision that are declared without a modifier
PublicFields == {"verboseLogging", "obfuscateApiKeysInLogs"}

\* the values a caller assigns: logging switched on, redaction either way
AssignedValues(field) == IF field = "verboseLogging" THEN {TRUE} ELSE BOOLEAN

\* the caller assigns a public field of the client
Assign(field, value) ==
  /\ ~last.settled
  /\ variant = "part_002"
  /\ client' = [client EXCEPT ![field] = value]
  /\ UNCHANGED <<variant, inflight, last, construction, redaction>>

\* the caller constructs another client from the config object it used
\* before and goes on with that client
Reconstruct ==
  /\ ~last.settled
  /\ construction.how = "new"
  /\ construction.clients < MaxClients
  /\ \A i \in Slots : inflight[i].pc = "idle"
  /\ client' = PremiumizeClient(variant, construction.cfg)
  /\ construction' =
       [construction EXCEPT
          !.console = ConsoleAtConstruction(variant, construction.cfg),
          !.cfg = CfgAfter(variant, construction.cfg),
          !.clients = @ + 1]
  /\ UNCHANGED <<variant, inflight, last, redaction>>

\* the steps of a client whose fields are all private
NextSealed ==
  \/ \E i \in Slots : \E opts \in Operations(variant) : Invoke(i, opts)
  \/ \E i \in Slots : \E st \in HttpStatuses : \E body \in Bodies :
       \E rq \in Metas(variant) : Respond(i, st, body, rq)
  \/ \E i \in Slots : \E fault \in NetworkFaults : Fail(i, fault)
  \/ Deliver
  \/ Reconstruct

Next ==
  \/ NextSealed
  \/ \E field \in PublicFields : \E value \in AssignedValues(field) :
       Assign(field, value)

Spec == Init /\ [][Next]_vars

\* a client of one revision only
InitPart002 == Init /\ variant = "part_002"
InitIndex == Init /\ variant = "index"
InitErrorsA == Init /\ variant = "errorsA"
InitErrorsB == Init /\ variant = "errorsB"
SpecPart002 == InitPart002 /\ [][Next]_vars
SpecIndex == InitIndex /\ [][NextSealed]_vars
SpecErrorsA == InitErrorsA /\ [][NextSealed]_vars
SpecErrorsB == InitErrorsB /\ [][NextSealed]_vars

\* obfuscateString on its own: every string over a letter and a dot, and the
\* percentToHide values 0, 0.25, 0.5, 0.75 and 1
Alphabet == {"a", "."}
Strings == UNION {[1..n -> Alphabet] : n \in 0..MaxLen}
Fractions == {<<0, 1>>, <<1, 4>>, <<1, 2>>, <<3, 4>>, <<1, 1>>}

InitRedact ==
  /\ variant = "part_002"
  /\ client = PremiumizeClient("part_002",
                               Config("secret01", "absent", "undefined",
                                      "undefined"))
  /\ construction =
       Construction("new", Config("secret01", "absent", "undefined",
                                  "undefined"), << >>,
                    CfgAfter("part_002", Config("secret01", "absent",
                                                "undefined", "undefined")), 1)
  /\ inflight = [i \in Slots |-> Idle]
  /\ last = NoneSettled
  /\ \E s \in Strings : \E f \in Fractions :
       redaction = Redaction("input", s, f[1], f[2], << >>)

\* obfuscateString(s, percentToHide) is applied
Redact ==
  /\ redaction.pc = "input"
  /\ redaction' = Redaction("done", redaction.s, redaction.num, redaction.den,
                            obfuscateString(redaction.s, redaction.num,
                                            redaction.den))
  /\ UNCHANGED <<variant, client, inflight, last, construction>>

SpecRedact == InitRedact /\ [][Redact]_vars

(* ---------------------------------------------------------------------- *)
(* Properties of the request pipeline                                      *)
(* ---------------------------------------------------------------------- *)

\* the transport delivered a response to the settled call
GotResponse == last.settled /\ last.reply.kind = "response"
\* the transport rejected the settled call
GotFault == last.settled /\ last.reply.kind = "fault"
\* a response or a rejected response whose body has status "error"
GotErrorBody ==
  /\ last.settled
  /\ last.reply.kind = "response" \/ (last.reply.kind = "fault" /\ last.reply.status # 0)
  /\ IsObject(last.reply.data)
  /\ "status" \in DOMAIN last.reply.data.fields
  /\ last.reply.data.fields["status"] = Str("error")
\* what the declared validator says of the body of the settled call
Parsed == safeParse(SchemaOf(last.opts.schema), last.reply.data)
\* a response without error indicator that the declared validator rejects
GotInvalidBody ==
  /\ GotResponse
  /\ ~GotErrorBody
  /\ last.opts.schema # "none"
  /\ ~Parsed.success

\* C1: a call on a client whose credential is the empty string rejects with
\* "API key is required" and makes no transport call.
C1_EmptyKeyFailsFast ==
  (last.settled /\ HeldKey(variant, client) = "")
    => /\ last.state = "rejected"
       /\ last.error.message = << "API key is required" >>
       /\ last.transportCalls = 0

\* the message of the service, or the fallback when it is missing or empty
ServiceMessage(data) ==
  IF "message" \in DOMAIN data.fields /\ data.fields["message"] # Str("")
  THEN << data.fields["message"][2] >>
  ELSE << "API request failed" >>

\* a Service Error: a PremiumizeError raised for this error body
IsServiceError(e, data) ==
  /\ e.name = "PremiumizeError"
  /\ e.raw.k = "body"
  /\ e.raw.body = data

\* C2: an error body, whatever the HTTP status, rejects with a Service Error
\* and the validator is never run on it.
C2_ErrorBodyIsServiceError ==
  GotErrorBody
    => /\ last.state = "rejected"
       /\ IsServiceError(last.error, last.reply.data)
       /\ ~last.validated

\* C3: a successful call of an operation with a validator returns the
\* validator's normalized output, not the raw body.
C3_ReturnsNormalized ==
  (last.settled /\ last.state = "resolved" /\ last.opts.schema # "none")
    => /\ Parsed.success
       /\ last.value = Parsed.data

\* C3 witness: a validated call returned a value that differs from the raw body
C3_Witness ==
  /\ last.settled /\ last.state = "resolved" /\ last.opts.schema # "none"
  /\ last.value # last.reply.data

\* C4: without a validator, a response without error indicator is returned
\* unchanged.
C4_NoValidatorReturnsRaw ==
  (GotResponse /\ ~GotErrorBody /\ last.opts.schema = "none")
    => /\ last.state = "resolved"
       /\ last.value = last.reply.data

\* C4 witness: getUploadInfo returned an object body that has a status field
C4_Witness ==
  /\ GotResponse /\ last.opts.schema = "none"
  /\ last.state = "resolved"
  /\ last.value = FolderBodyOld

\* C5: a transport failure rejects with an error that wraps the raw fault,
\* and neither the error-body test nor the validator is applied.
C5_FaultIsWrapped ==
  GotFault
    => /\ last.state = "rejected"
       /\ last.error.name \in {"ApiRequestError", "PremiumizeError"}
       /\ last.error.raw.k = "error"
       /\ last.error.raw.error = last.reply.fault
       /\ ~last.detected
       /\ ~last.validated

\* C6: a body that fails the validator rejects with an error that carries
\* the structured issues and the raw body.
C6_ValidationErrorCarriesBody ==
  GotInvalidBody
    => /\ last.state = "rejected"
       /\ last.error.raw.k = "validation"
       /\ last.error.raw.issues = Parsed.issues
       /\ last.error.raw.data = last.reply.data

\* the error name this client reports for the settled call's operation when
\* the transport hands back reply r instead
KindFor(r) == Resume(variant, client, last.opts, r).error.name

\* replies of each failure cause: a service-reported error, a body that the
\* declared validator rejects, a transport fault
ServiceReplies == {AxiosReply(200, b, "path") : b \in ErrorBodies}
ValidationReplies ==
  {AxiosReply(200, b, "path") :
     b \in {x \in Bodies \ ErrorBodies :
              /\ last.opts.schema # "none"
              /\ ~safeParse(SchemaOf(last.opts.schema), x).success}}
TransportReplies ==
  {Reply("fault", 0, NullBody, "absent", f) : f \in NetworkFaults}

\* C7: service errors, validation failures and transport faults reject with
\* pairwise different error kinds.
C7_KindsDistinct ==
  /\ (GotFault /\ last.reply.status = 0)
       => \A r \in ServiceReplies \cup ValidationReplies :
            KindFor(r) # last.error.name
  /\ (GotResponse /\ GotErrorBody /\ last.detected)
       => \A r \in TransportReplies \cup ValidationReplies :
            KindFor(r) # last.error.name
  /\ (GotInvalidBody /\ last.validated)
       => \A r \in TransportReplies \cup ServiceReplies :
            KindFor(r) # last.error.name

\* one of the failure conditions holds of the settled call
FailureCondition ==
  \/ HeldKey(variant, client) = ""
  \/ GotFault
  \/ GotErrorBody
  \/ GotInvalidBody

\* C8: a settled call has exactly one outcome, a value (validated when a
\* validator is declared) or an error, and no failure condition settles as a
\* value.
C8_OneOutcome ==
  last.settled
    => /\ last.state \in {"resolved", "rejected"}
       /\ last.state = "resolved"
            => /\ last.error = NoError
               /\ last.opts.schema # "none" => last.value = Parsed.data
       /\ last.state = "rejected" => last.error.name # "none"
       /\ FailureCondition => last.state = "rejected"

\* the settled call was rejected by the error-body test
GotServiceError ==
  /\ GotResponse /\ GotErrorBody
  /\ last.state = "rejected"
  /\ last.detected /\ ~last.validated

\* C9: a Service Error carries the service's message, or "API request failed"
\* when the body has no or an empty message, and has the raw body attached.
C9_ServiceErrorContent ==
  GotServiceError
    => /\ last.error.message = ServiceMessage(last.reply.data)
       /\ last.error.raw.k = "body"
       /\ last.error.raw.body = last.reply.data

\* C10: a body that fails the validator rejects with a message made of
\* "API response validation failed" and the validator's issues, not with the
\* generic "API request failed".
C10_ValidationMessage ==
  GotInvalidBody
    => /\ last.state = "rejected"
       /\ Len(last.error.message) > 1
       /\ last.error.message[1] = "API response validation failed: "
       /\ SubSeq(last.error.message, 2, Len(last.error.message)) = Parsed.issues
       /\ last.error.message # << "API request failed" >>

\* the parameter map a dispatch handed to axios: its params, or the object
\* that the third revision passes as second argument of a post
HandedParams(d) == d.body \o d.params

\* the entries of a parameter map under key k
EntriesOf(m, k) == {i \in 1..Len(m) : m[i][1] = k}

CredentialInjected(d) ==
  /\ Cardinality(EntriesOf(HandedParams(d), "apikey")) = 1
  /\ \A i \in EntriesOf(HandedParams(d), "apikey") :
       HandedParams(d)[i][2] = Str(HeldKey(variant, client))

Dispatched ==
  {inflight[i].dispatch : i \in {j \in Slots : inflight[j].pc = "awaiting"}}
    \cup (IF last.settled /\ last.transportCalls > 0 THEN {last.dispatch} ELSE {})

\* the operation and the dispatch of every call that reached the transport
DispatchedCalls ==
  {<<inflight[i].opts, inflight[i].dispatch>> :
     i \in {j \in Slots : inflight[j].pc = "awaiting"}}
    \cup (IF last.settled /\ last.transportCalls > 0
          THEN {<<last.opts, last.dispatch>>} ELSE {})

\* the credential followed by the operation's parameters under other keys
QueryOf(opts) ==
  << << "apikey", Str(HeldKey(variant, client)) >> >> \o opts.params

\* C12: an operation declared with method post is dispatched as a POST with a
\* null body and the credential and its parameters as query parameters; any
\* other operation is dispatched as a GET with the same query parameters.
C12_MethodAndQuery ==
  \A c \in DispatchedCalls :
    /\ c[2].params = QueryOf(c[1])
    /\ c[2].body = << >>
    /\ IF c[1].method = "post"
       THEN c[2].fn = "post" /\ c[2].data = "null"
       ELSE c[2].fn = "get" /\ c[2].data = "none"

\* C13: an optional field the caller left unset has no key in the parameter
\* map handed to the transport (no undefined or empty placeholder), and every
\* field the caller set is handed over under its mapped key with its value.
C13_UnsetOmitted ==
  \A c \in DispatchedCalls :
    /\ \A i \in 1..Len(HandedParams(c[2])) :
         /\ HandedParams(c[2])[i][2] # Undefined
         /\ HandedParams(c[2])[i][2] # Str("")
              \/ HandedParams(c[2])[i][1] = "apikey"
    /\ \A i \in 1..Len(c[1].params) :
         c[1].params[i][2] # Undefined
           => \E j \in 1..Len(HandedParams(c[2])) :
                HandedParams(c[2])[j] = c[1].params[i]

\* does string s hold string sub as a substring
Contains(s, sub) ==
  \E i \in 1..(Len(s) - Len(sub) + 1) : SubSeq(s, i, i + Len(sub) - 1) = sub

\* the settled call reached the transport on a client that logs verbosely
LoggedCall ==
  /\ last.settled /\ last.transportCalls = 1
  /\ client.config.verboseLogging = "true"
  /\ HeldKey(variant, client) # ""

\* the redaction flag the pipeline consults; the older revisions have none
\* and always redact the line before the call
RedactionEnabled ==
  IF variant = "part_002" THEN client.obfuscateApiKeysInLogs ELSE TRUE

\* the credential of this client and its redacted form
RawKey == Chars(HeldKey(variant, client))
RedactedKey == obfuscateString(RawKey, 1, DefaultHideDen(variant))

\* C14: with verbose logging and redaction enabled, the line before the call
\* holds the HTTP method, the endpoint and the redacted credential, and no
\* line of the call holds the raw credential.
C14_LogsRedacted ==
  (LoggedCall /\ RedactionEnabled)
    => /\ Len(last.log) >= 1
       /\ last.log[1].line = "pre"
       /\ last.log[1].method = (IF last.dispatch.fn = "post" THEN "POST" ELSE "GET")
       /\ last.log[1].endpoint = last.opts.endpoint
       /\ last.log[1].credential = RedactedKey
       /\ \A i \in 1..Len(last.log) : ~Contains(last.log[i].credential, RawKey)

\* hideLength of an application of obfuscateString
HideLength == (Len(redaction.s) * redaction.num) \div redaction.den

\* C15: obfuscateString of a non-empty string with a fraction below 1 differs
\* from the string, and for every string its two slices have lengths within
\* the string.
C15_RedactDiffers ==
  redaction.pc = "done"
    => /\ (redaction.s # << >> /\ redaction.num < redaction.den)
            => redaction.out # redaction.s
       /\ HideLength >= 0
       /\ Len(redaction.out) >= 3
       /\ Len(redaction.out) <= 2 * Len(redaction.s) + 3

\* C16: with verbose logging enabled, every line that shows the credential
\* shows its redacted form when the redaction flag is enabled and the raw
\* credential when it is disabled.
C16_RedactionFollowsFlag ==
  LoggedCall
    => \A i \in 1..Len(last.log) :
         last.log[i].credential # << >>
           => last.log[i].credential =
                (IF RedactionEnabled THEN RedactedKey ELSE RawKey)

\* the production-sensitivity warnings on the console
Warnings ==
  {i \in 1..Len(construction.console) : construction.console[i] = RedactionWarning}

EffectiveConfig ==
  << HeldKey(variant, client), client.baseURL,
     client.config.verboseLogging = "true", RedactionEnabled >>

\* C18: the effective configuration of a client never changes after
\* construction, whatever the caller calls or assigns.
C18_ConfigImmutable ==
  [][construction'.clients = construction.clients
       => EffectiveConfig' = EffectiveConfig]_vars

\* C19: the stored config object never holds the credential, and every call
\* still sends the credential the client was constructed with.
C19_ConfigScrubbed ==
  /\ client.config.apiKey = ""
  /\ \A d \in Dispatched :
       \E i \in 1..Len(HandedParams(d)) :
         HandedParams(d)[i] = << "apikey", Str(construction.config.apiKey) >>

\* C20: the base URL of the transport is the default when the caller gave
\* none (no baseUrl, or baseUrl undefined), and the caller's otherwise.
C20_DefaultBaseUrl ==
  client.baseURL =
    (IF construction.config.baseUrl \in {"absent", "undefined"}
     THEN DefaultBaseUrl ELSE construction.config.baseUrl)

\* the transport rejected the settled call with an error axios recognises
GotAxiosFault == GotFault /\ isAxiosError(last.reply.fault)

\* C21: an Axios error with message m rejects the call with the message
\* "API request failed: " followed by m, the Axios error attached as cause.
C21_AxiosErrorWrapped ==
  GotAxiosFault
    => /\ last.state = "rejected"
       /\ last.error.message = << "API request failed: " >> \o last.reply.fault.message
       /\ last.error.raw = RawError(last.reply.fault)

\* the transport rejected the settled call with an error axios does not own
GotForeignFault == GotFault /\ ~isAxiosError(last.reply.fault)

\* C22: a fault that axios.isAxiosError does not recognise rejects the call
\* with an error whose message holds the fault's message; it is never turned
\* into a value.
C22_ForeignFaultSurfaces ==
  GotForeignFault
    => /\ last.state = "rejected"
       /\ last.value = NullBody
       /\ Contains(last.error.message, last.reply.fault.message)

\* C22 witness: a call was rejected with the plain Error "Network Error"
C22_Witness ==
  /\ GotForeignFault
  /\ last.reply.fault.message = << "Network Error" >>
  /\ last.state = "rejected"
  /\ last.error.name = "Error"

\* how the settled call ends when the try block goes from the response body
\* straight to the error-body test, with no diagnostic in between
BodyOutcome ==
  LET s == Inspect(variant, last.opts, last.reply.data, << >>)
  IN << IF s.threw THEN "rejected" ELSE "resolved", s.value,
        IF s.threw THEN Catch(variant, s.error) ELSE s.error >>

\* C23: for every response, with or without request metadata, the call ends
\* as its body alone decides; building or emitting a diagnostic line never
\* makes it reject.
C23_LoggingBestEffort ==
  GotResponse => << last.state, last.value, last.error >> = BodyOutcome

\* C24: an invocation calls the transport at most once: once when the
\* credential is not empty, and never again after a fault, an error body or
\* a validation failure.
C24_SingleDispatch ==
  last.settled
    => /\ last.transportCalls <= 1
       /\ HeldKey(variant, client) # "" => last.transportCalls = 1
       /\ last.transportCalls = 1 <=> last.dispatch # NoDispatch
       /\ last.transportCalls = 1 <=> last.reply # NoReply

\* C24 witness: a call that the transport failed was rejected after its one
\* dispatch
C24_Witness ==
  /\ GotFault /\ last.reply.status = 0
  /\ last.state = "rejected"
  /\ last.transportCalls = 1
  /\ HeldKey(variant, client) # ""

\* the outcome of the call of slot i alone, resumed with reply r
OwnOutcome(i, r) ==
  LET s == Resume(variant, client, inflight[i].opts, r)
  IN << IF s.threw THEN "rejected" ELSE "resolved", s.value, s.error >>

\* C25: whatever calls overlap and in whatever order they complete, a step of
\* one call leaves every other call in flight and the client as they are,
\* what a call sends depends on its own operation only, and its outcome on
\* its own operation and its own reply only.
C25_CallsIndependent ==
  [][ /\ (inflight' # inflight \/ last' # last)
           => (client' = client /\ construction' = construction)
      /\ \A i \in Slots :
           inflight'[i] # inflight[i]
             => \A j \in Slots \ {i} : inflight'[j] = inflight[j]
      /\ \A i \in Slots :
           (inflight[i].pc = "idle" /\ inflight'[i].pc = "awaiting")
             => inflight'[i].dispatch = Send(variant, client, inflight'[i].opts)
      /\ \A i \in Slots :
           (inflight[i].pc = "awaiting" /\ inflight'[i].pc = "idle")
             => /\ last'.opts = inflight[i].opts
                /\ last'.dispatch = inflight[i].dispatch
                /\ << last'.state, last'.value, last'.error >>
                     = OwnOutcome(i, last'.reply) ]_vars

\* C25 witness: of two overlapping calls of different operations one has
\* settled with a value while the other is still in flight
C25_Witness ==
  /\ last.settled /\ last.transportCalls = 1 /\ last.state = "resolved"
  /\ \E i \in Slots :
       /\ inflight[i].pc = "awaiting"
       /\ inflight[i].opts.op # last.opts.op

\* the settled call was rejected by the error-body test or by the validator
ClassifiedInside ==
  /\ GotResponse
  /\ last.state = "rejected"
  /\ last.detected
  /\ last.error.name # "TypeError"

\* the error the try block raised for the body of the settled call
RaisedInside ==
  IF HasErrorStatus(last.reply.data)
  THEN ApiError(variant, last.reply.data)
  ELSE ValidationFailure(variant, Parsed.issues, last.reply.data)

\* C26: an error raised by the error-body test or for a validation failure
\* passes the catch block unchanged: same kind, message and attached cause,
\* and passing it again changes nothing.
C26_ClassificationIdempotent ==
  ClassifiedInside
    => /\ last.error = RaisedInside
       /\ Catch(variant, last.error) = last.error
       /\ last.error.message[1] # "API request failed: "

\* C26 witness: a PremiumizeError raised for an error body reached the caller
C26_Witness ==
  /\ ClassifiedInside
  /\ HasErrorStatus(last.reply.data)
  /\ last.error.name = "PremiumizeError"
  /\ last.error.raw = RawBody(last.reply.data)

\* the values of a parameter map and of a response body
ValuesOf(m) == {m[i][2] : i \in 1..Len(m)}
FieldsOf(b) == IF IsObject(b) THEN {b.fields[k] : k \in DOMAIN b.fields} ELSE {}

\* everything attached to an error: the body, the validated data, or the
\* wrapped error with the config of its request
AttachedValues(e) ==
  CASE e.raw.k = "body" -> FieldsOf(e.raw.body)
    [] e.raw.k = "validation" -> FieldsOf(e.raw.data)
    [] e.raw.k = "error" ->
         ValuesOf(e.raw.error.config.params) \cup ValuesOf(e.raw.error.config.data)
    [] OTHER -> {}

\* C27: no error that reaches the caller holds the raw credential, neither in
\* its message nor in what is attached to it.
C27_ErrorsHideCredential ==
  (last.settled /\ last.state = "rejected" /\ HeldKey(variant, client) # "")
    => /\ \A i \in 1..Len(last.error.message) :
            last.error.message[i] # HeldKey(variant, client)
       /\ Str(HeldKey(variant, client)) \notin AttachedValues(last.error)
       /\ Str(HeldKey(variant, client)) \notin
            ValuesOf(last.error.config.params) \cup ValuesOf(last.error.config.data)

\* C28: the constructor leaves the caller's config object as it was, so a
\* second client built from the same object holds the same credential and
\* its calls reach the transport.
C28_CallerConfigUntouched ==
  (construction.clients >= 2 /\ construction.config.apiKey # "")
    => /\ construction.cfg = construction.config
       /\ HeldKey(variant, client) = construction.config.apiKey
       /\ last.settled => last.transportCalls = 1

\* C29: for a non-empty secret and the default fractions 0.25 and 0.5, the
\* redacted form is the first and the last hideLength characters around the
\* marker, never holds the secret in full, and shows none of it when
\* hideLength is 0.
C29_RedactionHides ==
  (redaction.pc = "done" /\ redaction.s # << >>
     /\ << redaction.num, redaction.den >> \in {<<1, 4>>, <<1, 2>>})
    => /\ redaction.out =
            SubSeq(redaction.s, 1, HideLength) \o << ".", ".", "." >>
              \o SubSeq(redaction.s, Len(redaction.s) - HideLength + 1,
                        Len(redaction.s))
       /\ ~Contains(redaction.out, redaction.s)
       /\ HideLength = 0 => redaction.out = << ".", ".", "." >>

\* the transport answered the settled call with a null or an empty body
GotEmptyBody == GotResponse /\ last.reply.data \in {NullBody, EmptyBody}

\* C30: on a null or empty body the error-body test does not fail: with a
\* validator the call ends as a validation failure, without one it returns
\* the body, and it never rejects with a TypeError.
C30_EmptyBodyHandled ==
  (GotEmptyBody /\ last.detected)
    => /\ last.error.name # "TypeError"
       /\ IF last.opts.schema # "none"
          THEN /\ last.state = "rejected"
               /\ last.validated
               /\ last.error.message[1] = "API response validation failed: "
          ELSE /\ last.state = "resolved"
               /\ last.value = last.reply.data

====
